---------------------------- MODULE Spec2Model ----------------------------
(***************************************************************************)
(* A model of src/src/App.tsx: the CSV tokenizer (parseCSV), the date      *)
(* normaliser (parseDate and datePatterns), the record validation and the  *)
(* pairwise overlap aggregation of processData, the selection of the       *)
(* employee pairs with the highest total, and the upload handlers of the   *)
(* App component (handleFileUpload, reader.onload, reader.onerror).        *)
(*                                                                         *)
(* Representation.                                                         *)
(*  - A JavaScript string is a sequence of characters, a character a       *)
(*    one-character string.  A character that has no literal in TLA+ is    *)
(*    the string of its JavaScript escape: "\\v" is U+000B, "\\u00A0" is   *)
(*    the no-break space.                                                  *)
(*  - A JavaScript number that comes out of Number(string) is a decimal    *)
(*    fraction [num, den] with den a power of ten (den = 1: an integer);   *)
(*    den = 0 is NaN (num = 0), Infinity (num = 1), -Infinity (num = -1).  *)
(*    Day counts and totals are integers.                                  *)
(*  - A Date is [tag |-> "date", day |-> d, ms |-> m]: its time value is   *)
(*    d * MsPerDay + m milliseconds since 1970-01-01T00:00Z, with          *)
(*    0 <= m < MsPerDay (the pair keeps every time value of the Date range *)
(*    within the integers of the model checker).  An Invalid Date is       *)
(*    [tag |-> "invalid"].                                                 *)
(*  - The local time zone of the host is one of Zones: UTC, or             *)
(*    Europe/Sofia with its summer time.                                   *)
(*  - A Map is the sequence of its [key, value] entries in insertion order.*)
(*  - The wall clock is the sequence of the readings that the successive   *)
(*    `new Date()` calls of a run return; a read after the last reading    *)
(*    returns the last reading again.                                      *)
(***************************************************************************)
EXTENDS Integers, Sequences, FiniteSets, TLC

VARIABLES
    dateStr,        \* parseDate: its argument
    parsed,         \* parseDate: its result
    row,            \* processData: the row of the validation loop
    rec,            \* processData: what the validation loop makes of the row
    now,            \* the readings of the wall clock, one per `new Date()`
    zone,           \* the local time zone of the host
    records,        \* processData: const records
    i,              \* processData: outer loop index
    j,              \* processData: inner loop index
    pairMap,        \* processData: const pairMap
    pairMapTotal,   \* processData: const pairMapTotal
    filtered,       \* processData: const filtered (the argument of setPairs)
    pc,             \* processData: where the aggregation stands
    pairs,          \* App: useState pairs
    error,          \* App: useState error
    fileUploaded,   \* App: useState fileUploaded
    readers         \* the FileReader objects created by handleFileUpload

vars == <<dateStr, parsed, row, rec, now, zone, records, i, j, pairMap,
          pairMapTotal, filtered, pc, pairs, error, fileUploaded, readers>>

dateVars == <<dateStr, parsed>>
rowVars  == <<row, rec>>
loopVars == <<records, i, j, pairMap, pairMapTotal, filtered, pc>>
appVars  == <<pairs, error, fileUploaded, readers>>

-----------------------------------------------------------------------------
(* Strings *)

Digits == {"0", "1", "2", "3", "4", "5", "6", "7", "8", "9"}

DigitVal(c) ==
    CASE c = "0" -> 0 [] c = "1" -> 1 [] c = "2" -> 2 [] c = "3" -> 3
      [] c = "4" -> 4 [] c = "5" -> 5 [] c = "6" -> 6 [] c = "7" -> 7
      [] c = "8" -> 8 [] c = "9" -> 9

DigitChar(n) ==
    CASE n = 0 -> "0" [] n = 1 -> "1" [] n = 2 -> "2" [] n = 3 -> "3"
      [] n = 4 -> "4" [] n = 5 -> "5" [] n = 6 -> "6" [] n = 7 -> "7"
      [] n = 8 -> "8" [] n = 9 -> "9"

\* ECMAScript WhiteSpace and LineTerminator: what trim() and Number() take
\* for white space, and the date parser between its words
WhiteSpace ==
    {" ", "\t", "\n", "\r", "\f", "\\v", "\\u00A0", "\\u1680", "\\u2000",
     "\\u2001", "\\u2002", "\\u2003", "\\u2004", "\\u2005", "\\u2006",
     "\\u2007", "\\u2008", "\\u2009", "\\u200A", "\\u2028", "\\u2029",
     "\\u202F", "\\u205F", "\\u3000", "\\uFEFF"}

\* String.prototype.trim
RECURSIVE TrimStart(_)
TrimStart(s) ==
    IF s # <<>> /\ Head(s) \in WhiteSpace THEN TrimStart(Tail(s)) ELSE s

RECURSIVE TrimEnd(_)
TrimEnd(s) ==
    IF s # <<>> /\ s[Len(s)] \in WhiteSpace
    THEN TrimEnd(SubSeq(s, 1, Len(s) - 1)) ELSE s

Trim(s) == TrimEnd(TrimStart(s))

UpperCaseLetters ==
    <<"A", "B", "C", "D", "E", "F", "G", "H", "I", "J", "K", "L", "M",
      "N", "O", "P", "Q", "R", "S", "T", "U", "V", "W", "X", "Y", "Z">>

LowerCaseLetters ==
    <<"a", "b", "c", "d", "e", "f", "g", "h", "i", "j", "k", "l", "m",
      "n", "o", "p", "q", "r", "s", "t", "u", "v", "w", "x", "y", "z">>

\* the lower case of the letters A to Z, as the number parser reads a hex
\* digit and the date parser a word; any other character as it is
AsciiAlphaToLower(c) ==
    IF \E k \in 1..Len(UpperCaseLetters) : UpperCaseLetters[k] = c
    THEN LowerCaseLetters[CHOOSE k \in 1..Len(UpperCaseLetters) : UpperCaseLetters[k] = c]
    ELSE c

\* String.prototype.split(sep), sep one character: the pieces between the
\* separators, empty pieces included
RECURSIVE SplitAcc(_, _, _, _)
SplitAcc(s, sep, cur, acc) ==
    IF s = <<>> THEN Append(acc, cur)
    ELSE IF Head(s) \in sep THEN SplitAcc(Tail(s), sep, <<>>, Append(acc, cur))
    ELSE SplitAcc(Tail(s), sep, Append(cur, Head(s)), acc)

Split(s, c) == SplitAcc(s, {c}, <<>>, <<>>)

\* csvText.split(/\r?\n/): a line ends at "\n"; a "\r" right before it belongs
\* to the separator
StripCR(line) ==
    IF line # <<>> /\ line[Len(line)] = "\r"
    THEN SubSeq(line, 1, Len(line) - 1) ELSE line

SplitLines(s) ==
    LET raw == Split(s, "\n")
    IN  [k \in 1..Len(raw) |-> IF k < Len(raw) THEN StripCR(raw[k]) ELSE raw[k]]

\* RegExp.test for the patterns of datePatterns: "d" stands for \d, every
\* other character for itself, anchored at both ends
TestShape(shape, s) ==
    /\ Len(s) = Len(shape)
    /\ \A k \in 1..Len(s) :
          IF shape[k] = "d" THEN s[k] \in Digits ELSE s[k] = shape[k]

AllDigits(s) == \A k \in 1..Len(s) : s[k] \in Digits

-----------------------------------------------------------------------------
(* Numbers *)

NaN == [num |-> 0, den |-> 0]

Infinity == [num |-> 1, den |-> 0]

Num(n) == [num |-> n, den |-> 1]

isNaN(x) == x.den = 0 /\ x.num = 0

IsFinite(x) == x.den # 0

RECURSIVE DigitsValue(_, _)
DigitsValue(ds, acc) ==
    IF ds = <<>> THEN acc ELSE DigitsValue(Tail(ds), 10 * acc + DigitVal(Head(ds)))

RECURSIVE Pow10(_)
Pow10(k) == IF k = 0 THEN 1 ELSE 10 * Pow10(k - 1)

RECURSIVE StripZeros(_)
StripZeros(ds) ==
    IF ds # <<>> /\ ds[Len(ds)] = "0"
    THEN StripZeros(SubSeq(ds, 1, Len(ds) - 1)) ELSE ds

\* a decimal fraction in lowest terms of ten
RECURSIVE Reduce(_, _)
Reduce(num, den) ==
    IF den > 1 /\ num % 10 = 0 THEN Reduce(num \div 10, den \div 10)
    ELSE [num |-> num, den |-> den]

\* digits, optionally "." and more digits, at least one digit in all
UnsignedDecimal(s) ==
    LET parts == Split(s, ".")
        whole == parts[1]
        frac  == IF Len(parts) = 2 THEN StripZeros(parts[2]) ELSE <<>>
    IN  IF /\ Len(parts) \in {1, 2}
           /\ \A k \in 1..Len(parts) : AllDigits(parts[k])
           /\ \E k \in 1..Len(parts) : parts[k] # <<>>
        THEN [num |-> DigitsValue(whole \o frac, 0), den |-> Pow10(Len(frac))]
        ELSE NaN

\* the ExponentPart after "e" or "E": an optional sign and digits
ExponentValue(s) ==
    LET neg  == s # <<>> /\ Head(s) = "-"
        body == IF s # <<>> /\ Head(s) \in {"-", "+"} THEN Tail(s) ELSE s
    IN  IF body # <<>> /\ AllDigits(body)
        THEN [ok |-> TRUE, value |-> IF neg THEN 0 - DigitsValue(body, 0)
                                     ELSE DigitsValue(body, 0)]
        ELSE [ok |-> FALSE, value |-> 0]

\* StrUnsignedDecimalLiteral: Infinity, or a decimal with an optional
\* exponent
StrUnsignedDecimalLiteral(s) ==
    LET parts == SplitAcc(s, {"e", "E"}, <<>>, <<>>)
        m     == UnsignedDecimal(parts[1])
        e     == ExponentValue(parts[2])
    IN  IF s = <<"I", "n", "f", "i", "n", "i", "t", "y">> THEN Infinity
        ELSE IF Len(parts) = 1 THEN m
        ELSE IF Len(parts) > 2 \/ isNaN(m) \/ ~e.ok THEN NaN
        ELSE IF e.value >= 0 THEN Reduce(m.num * Pow10(e.value), m.den)
        ELSE Reduce(m.num, m.den * Pow10(0 - e.value))

HexDigits ==
    <<"0", "1", "2", "3", "4", "5", "6", "7", "8", "9", "a", "b", "c", "d", "e", "f">>

\* the value of a digit in a radix, -1 when it is no digit of the radix
RadixDigit(c, radix) ==
    LET l == AsciiAlphaToLower(c)
    IN  IF \E k \in 1..radix : HexDigits[k] = l
        THEN (CHOOSE k \in 1..radix : HexDigits[k] = l) - 1
        ELSE -1

RECURSIVE RadixValue(_, _, _)
RadixValue(ds, radix, acc) ==
    IF ds = <<>> THEN acc
    ELSE RadixValue(Tail(ds), radix, radix * acc + RadixDigit(Head(ds), radix))

\* NonDecimalIntegerLiteral: the digits after 0x, 0o or 0b
NonDecimalInteger(ds, radix) ==
    IF ds # <<>> /\ \A k \in 1..Len(ds) : RadixDigit(ds[k], radix) >= 0
    THEN Num(RadixValue(ds, radix, 0))
    ELSE NaN

\* Number(string) (ECMAScript StringToNumber): white space is trimmed, the
\* empty string is 0, a numeric literal is its value, anything else is NaN.
\* (The value is exact: the model holds literals of up to nine significant
\* digits, which a double holds exactly as far as the program can tell.)
Number(str) ==
    LET s     == Trim(str)
        radix == IF Len(s) < 2 \/ s[1] # "0" THEN 10
                 ELSE CASE s[2] \in {"x", "X"} -> 16
                        [] s[2] \in {"o", "O"} -> 8
                        [] s[2] \in {"b", "B"} -> 2
                        [] OTHER -> 10
        neg   == s # <<>> /\ Head(s) = "-"
        body  == IF s # <<>> /\ Head(s) \in {"-", "+"} THEN Tail(s) ELSE s
        u     == StrUnsignedDecimalLiteral(body)
    IN  IF s = <<>> THEN Num(0)
        ELSE IF radix # 10 THEN NonDecimalInteger(SubSeq(s, 3, Len(s)), radix)
        ELSE IF isNaN(u) THEN NaN
        ELSE [num |-> IF neg THEN 0 - u.num ELSE u.num, den |-> u.den]

\* a < b on numbers (false when either is NaN)
NumLess(a, b) ==
    /\ ~isNaN(a) /\ ~isNaN(b)
    /\ IF IsFinite(a) /\ IsFinite(b) THEN a.num * b.den < b.num * a.den
       ELSE IF IsFinite(a) THEN b.num > 0
       ELSE IF IsFinite(b) THEN a.num < 0
       ELSE a.num < b.num

\* a === b on numbers
NumEq(a, b) ==
    /\ ~isNaN(a) /\ ~isNaN(b)
    /\ IF IsFinite(a) /\ IsFinite(b) THEN a.num * b.den = b.num * a.den
       ELSE a = b

RECURSIVE NatDigits(_)
NatDigits(n) ==
    IF n < 10 THEN <<DigitChar(n)>>
    ELSE Append(NatDigits(n \div 10), DigitChar(n % 10))

RECURSIVE FracDigits(_, _)
FracDigits(n, den) ==
    IF den = 1 THEN <<>>
    ELSE <<DigitChar(n \div (den \div 10))>>
         \o FracDigits(n % (den \div 10), den \div 10)

RECURSIVE Log10(_)
Log10(den) == IF den = 1 THEN 0 ELSE 1 + Log10(den \div 10)

\* Number.prototype.toString, as a template literal applies it: fixed
\* notation, and exponent notation for a value below 0.000001
NumToString(x) ==
    LET a    == IF x.num < 0 THEN 0 - x.num ELSE x.num
        sign == IF x.num < 0 THEN <<"-">> ELSE <<>>
        ds   == NatDigits(a)
        e    == Len(ds) - 1 - Log10(x.den)
    IN  IF isNaN(x) THEN <<"N", "a", "N">>
        ELSE IF ~IsFinite(x) THEN sign \o <<"I", "n", "f", "i", "n", "i", "t", "y">>
        ELSE IF a # 0 /\ e <= -7
        THEN sign \o <<Head(ds)>>
             \o (IF Len(ds) > 1 THEN <<".">> \o Tail(ds) ELSE <<>>)
             \o <<"e", "-">> \o NatDigits(0 - e)
        ELSE sign \o NatDigits(a \div x.den)
             \o (IF x.den = 1 THEN <<>> ELSE <<".">> \o FracDigits(a % x.den, x.den))

-----------------------------------------------------------------------------
(* Dates: the host's Date object *)

MsPerDay == 1000 * 60 * 60 * 24

DateVal(d, m) == [tag |-> "date", day |-> d, ms |-> m]

InvalidDate == [tag |-> "invalid"]

Null == [tag |-> "null"]

\* isNaN(d.getTime())
IsInvalidDate(d) == d.tag = "invalid"

\* a < b on the time values of two dates
DateLess(a, b) == a.day < b.day \/ (a.day = b.day /\ a.ms < b.ms)

IsLeap(y) == (y % 4 = 0 /\ y % 100 # 0) \/ y % 400 = 0

\* ECMAScript DayFromYear: the day number of January 1st of year y
DayFromYear(y) ==
    365 * (y - 1970) + ((y - 1969) \div 4) - ((y - 1901) \div 100)
        + ((y - 1601) \div 400)

\* days in month m (0-based) of year y
DaysInMonth(y, m) ==
    CASE m \in {0, 2, 4, 6, 7, 9, 11} -> 31
      [] m \in {3, 5, 8, 10} -> 30
      [] m = 1 -> IF IsLeap(y) THEN 29 ELSE 28

RECURSIVE DaysBeforeMonth(_, _)
DaysBeforeMonth(y, m) ==
    IF m = 0 THEN 0 ELSE DaysBeforeMonth(y, m - 1) + DaysInMonth(y, m - 1)

\* ECMAScript MakeDay: a month outside 0..11 carries into the year, a day
\* outside the month carries into the neighbouring months
MakeDay(year, month, date) ==
    LET ym == year + (month \div 12)
        mn == month % 12
    IN  DayFromYear(ym) + DaysBeforeMonth(ym, mn) + date - 1

\* the Date range: 100,000,000 days on either side of the epoch
MaxDay == 100000000

\* a year no time value of the Date range falls in
MaxYear == 400000

\* ECMAScript MakeDate and TimeClip: day number d and m milliseconds (of any
\* size and sign) as a Date, an Invalid Date outside the Date range
TimeClip(d, m) ==
    LET day == d + (m \div MsPerDay)
        ms  == m % MsPerDay
    IN  IF day < 0 - MaxDay \/ day > MaxDay \/ (day = MaxDay /\ ms > 0)
        THEN InvalidDate
        ELSE DateVal(day, ms)

\* the year a day number falls in
YearFromDay(d) ==
    LET c  == (d - DayFromYear(2000)) \div 146097
        r  == (d - DayFromYear(2000)) % 146097
        y0 == 2000 + 400 * c + (r \div 366)
    IN  IF DayFromYear(y0 + 1) <= d THEN y0 + 1 ELSE y0

\* the last Sunday of a month of 31 days (day 0 is a Thursday)
LastSunday(y, m) == MakeDay(y, m, 31) - ((MakeDay(y, m, 31) + 4) % 7)

\* the local time zones of the host
Zones == {"UTC", "Europe/Sofia"}

\* Europe/Sofia up to 1996: local mean time (1 h 33 min 16 s), then the
\* changes of the offset, each <<day, second of the day, offset from then
\* on>> in UTC and in seconds
SofiaMeanTime == 5596

SofiaChanges ==
    <<<<-32873, 80804, 7016>>, <<-27426, 79384, 7200>>, <<-9922, 3600, 3600>>,
      <<-9775, 3600, 7200>>, <<-9586, 3600, 3600>>, <<-9404, 3600, 7200>>,
      <<-9222, 3600, 3600>>, <<-9040, 7200, 7200>>, <<3376, 75600, 10800>>,
      <<3559, 79200, 7200>>, <<3747, 75600, 10800>>, <<3923, 79200, 7200>>,
      <<4111, 75600, 10800>>, <<4286, 82800, 7200>>, <<4475, 75600, 10800>>,
      <<4651, 0, 7200>>, <<4833, 0, 10800>>, <<5015, 0, 7200>>,
      <<5197, 0, 10800>>, <<5386, 0, 7200>>, <<5568, 0, 10800>>,
      <<5750, 0, 7200>>, <<5932, 0, 10800>>, <<6114, 0, 7200>>,
      <<6296, 0, 10800>>, <<6478, 0, 7200>>, <<6660, 0, 10800>>,
      <<6842, 0, 7200>>, <<7024, 0, 10800>>, <<7206, 0, 7200>>,
      <<7388, 0, 10800>>, <<7577, 0, 7200>>, <<7758, 79200, 10800>>,
      <<7940, 75600, 7200>>, <<8122, 79200, 10800>>, <<8304, 75600, 7200>>,
      <<8486, 79200, 10800>>, <<8668, 75600, 7200>>, <<8850, 79200, 10800>>,
      <<9032, 75600, 7200>>, <<9214, 79200, 10800>>, <<9396, 75600, 7200>>,
      <<9585, 79200, 10800>>, <<9795, 75600, 7200>>>>

\* the offset of the local time (day d, second s of the day) by the changes
\* from number k on, prev the offset before them: a local time that a change
\* skips or repeats has the offset from before the change
RECURSIVE OffsetByChanges(_, _, _, _)
OffsetByChanges(d, s, k, prev) ==
    IF k > Len(SofiaChanges) THEN prev
    ELSE LET at  == SofiaChanges[k][2]
                      + (IF prev > SofiaChanges[k][3] THEN prev ELSE SofiaChanges[k][3])
             day == SofiaChanges[k][1] + (at \div 86400)
         IN  IF d > day \/ (d = day /\ s >= at % 86400)
             THEN OffsetByChanges(d, s, k + 1, SofiaChanges[k][3])
             ELSE prev

\* Europe/Sofia from 1997 on: summer time (3 h) from the last Sunday of March
\* to the last Sunday of October, 01:00 UTC both, which is 04:00 local time
\* by the larger of the two offsets; 2 h otherwise
OffsetByRule(d, s, y) ==
    IF /\ (d > LastSunday(y, 2) \/ (d = LastSunday(y, 2) /\ s >= 4 * 3600))
       /\ (d < LastSunday(y, 9) \/ (d = LastSunday(y, 9) /\ s < 4 * 3600))
    THEN 10800 ELSE 7200

\* LocalTZA(t, false): the offset in seconds of the zone at the local time
\* day d, second s of the day
LocalOffset(z, d, s) ==
    IF z = "UTC" THEN 0
    ELSE IF d >= DayFromYear(1997) THEN OffsetByRule(d, s, YearFromDay(d))
    ELSE OffsetByChanges(d, s, 1, SofiaMeanTime)

\* ECMAScript UTC(t) and TimeClip: the Date of the local time day d, m
\* milliseconds
LocalDate(z, d, m) ==
    TimeClip(d + (m \div MsPerDay),
             (m % MsPerDay)
               - 1000 * LocalOffset(z, d + (m \div MsPerDay), (m % MsPerDay) \div 1000))

\* new Date(year, monthIndex, day): midnight of the local time zone; a year
\* 0..99 means 19xx
NewDate(year, month, date, z) ==
    LET yr == IF 0 <= year /\ year <= 99 THEN 1900 + year ELSE year
    IN  LocalDate(z, MakeDay(yr, month, date), 0)

-----------------------------------------------------------------------------
(* new Date(string): the date parser of the runtime (V8).  The string is    *)
(* cut into tokens; an ECMAScript date-time string                          *)
(* [+-yy]yyyy[-MM[-DD]][THH:mm[:ss[.sss]][Z|+-hh:mm]] is read as such, and  *)
(* where the string leaves that format the legacy parser takes over at the  *)
(* token that did not fit.                                                  *)

None == 2147483647

NumberToken(n, length) == [type |-> "number", number |-> n, length |-> length]

KeywordToken(k, length) ==
    [type |-> "keyword", keyword |-> k.type, value |-> k.value, length |-> length]

\* the characters below "A": neither digits nor the start of a word
BelowA ==
    Digits \cup {" ", "!", "\"", "#", "$", "%", "&", "'", "(", ")", "*", "+",
                 ",", "-", ".", "/", ":", ";", "<", "=", ">", "?", "@",
                 "\t", "\n", "\r", "\f", "\\v",
                 "\\u0000", "\\u0001", "\\u0002", "\\u0003", "\\u0004",
                 "\\u0005", "\\u0006", "\\u0007", "\\u0008", "\\u000E",
                 "\\u000F", "\\u0010", "\\u0011", "\\u0012", "\\u0013",
                 "\\u0014", "\\u0015", "\\u0016", "\\u0017", "\\u0018",
                 "\\u0019", "\\u001A", "\\u001B", "\\u001C", "\\u001D",
                 "\\u001E", "\\u001F"}

\* the words the parser knows, by their first three letters
KeywordTable ==
    <<[word |-> <<"j", "a", "n">>, type |-> "MONTH_NAME", value |-> 1],
      [word |-> <<"f", "e", "b">>, type |-> "MONTH_NAME", value |-> 2],
      [word |-> <<"m", "a", "r">>, type |-> "MONTH_NAME", value |-> 3],
      [word |-> <<"a", "p", "r">>, type |-> "MONTH_NAME", value |-> 4],
      [word |-> <<"m", "a", "y">>, type |-> "MONTH_NAME", value |-> 5],
      [word |-> <<"j", "u", "n">>, type |-> "MONTH_NAME", value |-> 6],
      [word |-> <<"j", "u", "l">>, type |-> "MONTH_NAME", value |-> 7],
      [word |-> <<"a", "u", "g">>, type |-> "MONTH_NAME", value |-> 8],
      [word |-> <<"s", "e", "p">>, type |-> "MONTH_NAME", value |-> 9],
      [word |-> <<"o", "c", "t">>, type |-> "MONTH_NAME", value |-> 10],
      [word |-> <<"n", "o", "v">>, type |-> "MONTH_NAME", value |-> 11],
      [word |-> <<"d", "e", "c">>, type |-> "MONTH_NAME", value |-> 12],
      [word |-> <<"a", "m">>, type |-> "AM_PM", value |-> 0],
      [word |-> <<"p", "m">>, type |-> "AM_PM", value |-> 12],
      [word |-> <<"u", "t">>, type |-> "TIME_ZONE_NAME", value |-> 0],
      [word |-> <<"u", "t", "c">>, type |-> "TIME_ZONE_NAME", value |-> 0],
      [word |-> <<"z">>, type |-> "TIME_ZONE_NAME", value |-> 0],
      [word |-> <<"g", "m", "t">>, type |-> "TIME_ZONE_NAME", value |-> 0],
      [word |-> <<"c", "d", "t">>, type |-> "TIME_ZONE_NAME", value |-> -5],
      [word |-> <<"c", "s", "t">>, type |-> "TIME_ZONE_NAME", value |-> -6],
      [word |-> <<"e", "d", "t">>, type |-> "TIME_ZONE_NAME", value |-> -4],
      [word |-> <<"e", "s", "t">>, type |-> "TIME_ZONE_NAME", value |-> -5],
      [word |-> <<"m", "d", "t">>, type |-> "TIME_ZONE_NAME", value |-> -6],
      [word |-> <<"m", "s", "t">>, type |-> "TIME_ZONE_NAME", value |-> -7],
      [word |-> <<"p", "d", "t">>, type |-> "TIME_ZONE_NAME", value |-> -7],
      [word |-> <<"p", "s", "t">>, type |-> "TIME_ZONE_NAME", value |-> -8],
      [word |-> <<"t">>, type |-> "TIME_SEPARATOR", value |-> 0]>>

\* the entry of a word of the given length with the given lowered prefix (its
\* first three letters); only a month name may be longer than its entry
KeywordLookup(prefix, length) ==
    LET Matches(k) == /\ KeywordTable[k].word = prefix
                      /\ (length <= 3 \/ KeywordTable[k].type = "MONTH_NAME")
    IN  IF \E k \in 1..Len(KeywordTable) : Matches(k)
        THEN KeywordTable[CHOOSE k \in 1..Len(KeywordTable) : Matches(k)]
        ELSE [word |-> prefix, type |-> "INVALID", value |-> 0]

\* the number of digits from position p on
RECURSIVE DigitRun(_, _)
DigitRun(s, p) ==
    IF p <= Len(s) /\ s[p] \in Digits THEN 1 + DigitRun(s, p + 1) ELSE 0

\* the number of characters of the word from position p on: a word goes on
\* over every character from "A" up that is not white space; the line
\* separators U+2028 and U+2029 are no white space to this test
RECURSIVE WordRun(_, _)
WordRun(s, p) ==
    IF /\ p <= Len(s)
       /\ s[p] \notin BelowA
       /\ (s[p] \notin WhiteSpace \/ s[p] \in {"\\u2028", "\\u2029"})
    THEN 1 + WordRun(s, p + 1) ELSE 0

RECURSIVE StripLeadingZeros(_)
StripLeadingZeros(ds) ==
    IF ds # <<>> /\ Head(ds) = "0" THEN StripLeadingZeros(Tail(ds)) ELSE ds

\* the value of a run of digits: leading zeros are skipped and at most nine
\* digits are read
ReadUnsignedNumeral(ds) ==
    LET sig == StripLeadingZeros(ds)
    IN  DigitsValue(SubSeq(sig, 1, IF Len(sig) > 9 THEN 9 ELSE Len(sig)), 0)

\* the position after the parenthesized text that opens at position p; the
\* text ends at its closing parenthesis, at the end of the string or before
\* a U+0000
RECURSIVE SkipParentheses(_, _, _)
SkipParentheses(s, p, balance) ==
    LET b == IF s[p] = ")" THEN balance - 1
             ELSE IF s[p] = "(" THEN balance + 1 ELSE balance
    IN  IF b > 0 /\ p + 1 <= Len(s) /\ s[p + 1] # "\\u0000"
        THEN SkipParentheses(s, p + 1, b) ELSE p + 1

\* the tokens of s from position p on; the reader takes a U+0000 for the end
\* of the string
RECURSIVE Tokenize(_, _)
Tokenize(s, p) ==
    IF p > Len(s) \/ s[p] = "\\u0000" THEN <<>>
    ELSE IF s[p] \in Digits
    THEN LET n == DigitRun(s, p)
         IN  <<NumberToken(ReadUnsignedNumeral(SubSeq(s, p, p + n - 1)), n)>>
             \o Tokenize(s, p + n)
    ELSE IF s[p] \in {":", "-", "+", ".", ")"}
    THEN <<[type |-> "symbol", symbol |-> s[p]]>> \o Tokenize(s, p + 1)
    ELSE IF WordRun(s, p) > 0
    THEN LET n == WordRun(s, p)
             prefix == [k \in 1..(IF n > 3 THEN 3 ELSE n) |->
                           AsciiAlphaToLower(s[p + k - 1])]
         IN  <<KeywordToken(KeywordLookup(prefix, n), n)>> \o Tokenize(s, p + n)
    ELSE IF s[p] \in WhiteSpace
    THEN <<[type |-> "whitespace"]>> \o Tokenize(s, p + 1)
    ELSE IF s[p] = "("
    THEN <<[type |-> "unknown"]>> \o Tokenize(s, SkipParentheses(s, p, 0))
    ELSE <<[type |-> "unknown"]>> \o Tokenize(s, p + 1)

Peek(tk, p) == IF p <= Len(tk) THEN tk[p] ELSE [type |-> "end"]

IsNumber(t) == t.type = "number"

IsFixedNumber(t, length) == t.type = "number" /\ t.length = length

IsSymbol(t, c) == t.type = "symbol" /\ t.symbol = c

IsAsciiSign(t) == IsSymbol(t, "+") \/ IsSymbol(t, "-")

IsKeywordType(t, type) == t.type = "keyword" /\ t.keyword = type

IsKeywordZ(t) == IsKeywordType(t, "TIME_ZONE_NAME") /\ t.length = 1

IsEndOfInput(t) == t.type = "end"

IsMonth(x) == 1 <= x /\ x <= 12

IsDay(x) == 1 <= x /\ x <= 31

IsHour(x) == 0 <= x /\ x <= 23

IsMinute(x) == 0 <= x /\ x <= 59

IsSecond(x) == 0 <= x /\ x <= 59

IsMillisecond(x) == 0 <= x /\ x <= 999

\* the milliseconds of the digits after the decimal point of the seconds:
\* their first three digits
ReadMilliseconds(token) ==
    LET length == IF token.length > 9 THEN 9 ELSE token.length
    IN  CASE token.length = 1 -> token.number * 100
          [] token.length = 2 -> token.number * 10
          [] token.length = 3 -> token.number
          [] OTHER -> token.number \div Pow10(length - 3)

\* the day, time and time zone composers of the parser, empty
Composers ==
    [day |-> <<>>, named_month |-> None, is_iso_date |-> FALSE,
     time |-> <<>>, hour_offset |-> None,
     tz_sign |-> None, tz_hour |-> None, tz_minute |-> None]

DayAdd(st, n) == [st EXCEPT !.day = Append(st.day, n)]

TimeAdd(st, n) == [st EXCEPT !.time = Append(st.time, n)]

RECURSIVE PadTime(_)
PadTime(time) == IF Len(time) < 4 THEN PadTime(Append(time, 0)) ELSE time

\* TimeComposer::AddFinal: the last component, the missing ones are 0
TimeAddFinal(st, n) ==
    IF Len(st.time) < 4 THEN [st EXCEPT !.time = PadTime(Append(st.time, n))] ELSE st

TimeIsExpecting(st, n) ==
    \/ Len(st.time) = 1 /\ IsMinute(n)
    \/ Len(st.time) = 2 /\ IsSecond(n)
    \/ Len(st.time) = 3 /\ IsMillisecond(n)

\* TimeZoneComposer::Set: an offset in hours
TzSet(st, offset) ==
    [st EXCEPT !.tz_sign = IF offset < 0 THEN -1 ELSE 1,
               !.tz_hour = IF offset < 0 THEN 0 - offset ELSE offset,
               !.tz_minute = 0]

TzIsUTC(st) == st.tz_hour = 0 /\ st.tz_minute = 0

ES5Invalid == [kind |-> "invalid", pos |-> 0, st |-> Composers]

\* the string left the date-time format at token p: the legacy parser goes on
\* from that token
ES5Unhandled(p, st) == [kind |-> "legacy", pos |-> p, st |-> st]

\* the whole string is a date-time string: a date without time is UTC
ES5Done(st) ==
    [kind |-> "end", pos |-> 0,
     st |-> [(IF st.tz_hour = None /\ st.time = <<>> THEN TzSet(st, 0) ELSE st)
                EXCEPT !.is_iso_date = TRUE]]

\* after the time zone: nothing may follow
ES5End(tk, p, st) ==
    IF IsEndOfInput(Peek(tk, p)) THEN ES5Done(st) ELSE ES5Invalid

\* the optional time zone at token p: Z, +-hhmm or +-hh:mm
ES5Zone(tk, p, st) ==
    LET sign == IF IsSymbol(Peek(tk, p), "+") THEN 1 ELSE -1
        a    == Peek(tk, p + 1)
        b    == Peek(tk, p + 3)
    IN  IF IsKeywordZ(Peek(tk, p)) THEN ES5End(tk, p + 1, TzSet(st, 0))
        ELSE IF ~IsAsciiSign(Peek(tk, p)) THEN ES5End(tk, p, st)
        ELSE IF IsFixedNumber(a, 4)
        THEN IF IsHour(a.number \div 100) /\ IsMinute(a.number % 100)
             THEN ES5End(tk, p + 2,
                         [st EXCEPT !.tz_sign = sign, !.tz_hour = a.number \div 100,
                                    !.tz_minute = a.number % 100])
             ELSE ES5Invalid
        ELSE IF /\ IsFixedNumber(a, 2) /\ IsHour(a.number)
                /\ IsSymbol(Peek(tk, p + 2), ":")
                /\ IsFixedNumber(b, 2) /\ IsMinute(b.number)
        THEN ES5End(tk, p + 4,
                    [st EXCEPT !.tz_sign = sign, !.tz_hour = a.number,
                               !.tz_minute = b.number])
        ELSE ES5Invalid

\* the optional [:ss[.sss]] at token p; 24:00 may only be followed by zeros
ES5Seconds(tk, p, st, hour_is_24) ==
    LET sec == Peek(tk, p + 1)
        ms  == Peek(tk, p + 3)
    IN  IF ~IsSymbol(Peek(tk, p), ":") THEN ES5Zone(tk, p, st)
        ELSE IF ~IsFixedNumber(sec, 2) \/ ~IsSecond(sec.number)
                \/ (hour_is_24 /\ sec.number > 0)
        THEN ES5Invalid
        ELSE IF ~IsSymbol(Peek(tk, p + 2), ".")
        THEN ES5Zone(tk, p + 2, TimeAdd(st, sec.number))
        ELSE IF ~IsNumber(ms) \/ (hour_is_24 /\ ms.number > 0)
        THEN ES5Invalid
        ELSE ES5Zone(tk, p + 4, TimeAdd(TimeAdd(st, sec.number), ReadMilliseconds(ms)))

\* after the date, at token p: the end of the string, or T and HH:mm
ES5Time(tk, p, st) ==
    LET hour == Peek(tk, p + 1)
        min  == Peek(tk, p + 3)
    IN  IF ~IsKeywordType(Peek(tk, p), "TIME_SEPARATOR")
        THEN IF IsEndOfInput(Peek(tk, p)) THEN ES5Done(st) ELSE ES5Unhandled(p, st)
        ELSE IF /\ IsFixedNumber(hour, 2) /\ 0 <= hour.number /\ hour.number <= 24
                /\ IsSymbol(Peek(tk, p + 2), ":")
                /\ IsFixedNumber(min, 2) /\ IsMinute(min.number)
                /\ ~(hour.number = 24 /\ min.number > 0)
        THEN ES5Seconds(tk, p + 4, TimeAdd(TimeAdd(st, hour.number), min.number),
                        hour.number = 24)
        ELSE ES5Invalid

\* after the year, at token p: the optional -MM and -DD
ES5MonthDay(tk, p, st) ==
    LET month == Peek(tk, p + 1)
        day   == Peek(tk, p + 3)
    IN  IF ~IsSymbol(Peek(tk, p), "-") THEN ES5Time(tk, p, st)
        ELSE IF ~IsFixedNumber(month, 2) \/ ~IsMonth(month.number)
        THEN ES5Unhandled(p + 1, st)
        ELSE IF ~IsSymbol(Peek(tk, p + 2), "-")
        THEN ES5Time(tk, p + 2, DayAdd(st, month.number))
        ELSE IF ~IsFixedNumber(day, 2) \/ ~IsDay(day.number)
        THEN ES5Unhandled(p + 3, DayAdd(st, month.number))
        ELSE ES5Time(tk, p + 4, DayAdd(DayAdd(st, month.number), day.number))

\* ParseES5DateTime: as far as the string is a date-time string
ParseES5DateTime(tk) ==
    LET first  == Peek(tk, 1)
        second == Peek(tk, 2)
    IN  IF IsAsciiSign(first)
        THEN IF ~IsFixedNumber(second, 6) THEN ES5Unhandled(1, Composers)
             ELSE IF first.symbol = "-" /\ second.number = 0
             THEN ES5Unhandled(3, Composers)
             ELSE ES5MonthDay(tk, 3,
                      DayAdd(Composers, IF first.symbol = "-" THEN 0 - second.number
                                        ELSE second.number))
        ELSE IF IsFixedNumber(first, 4)
        THEN ES5MonthDay(tk, 2, DayAdd(Composers, first.number))
        ELSE ES5Unhandled(1, Composers)

LegacyFail == [ok |-> FALSE, pos |-> 0, st |-> Composers]

LegacyStep(p, st) == [ok |-> TRUE, pos |-> p, st |-> st]

\* the legacy parser on the number at token p: a number before ":" is a time
\* component, a number the time or the time zone waits for goes there, any
\* other number is a component of the day
LegacyNumber(tk, p, st) ==
    LET n     == tk[p].number
        colon == IsSymbol(Peek(tk, p + 1), ":")
        dot   == ~colon /\ IsSymbol(Peek(tk, p + 1), ".")
        q     == IF dot THEN p + 2 ELSE p + 1
        after == Peek(tk, q)
    IN  IF colon
        THEN IF IsSymbol(Peek(tk, p + 2), ":")
             THEN IF st.time # <<>> THEN LegacyFail
                  ELSE LegacyStep(p + 3, TimeAdd(TimeAdd(st, n), 0))
             ELSE IF Len(st.time) >= 4 THEN LegacyFail
                  ELSE LegacyStep(IF IsSymbol(Peek(tk, p + 2), ".") THEN p + 3 ELSE p + 2,
                                  TimeAdd(st, n))
        ELSE IF dot /\ TimeIsExpecting(st, n)
        THEN IF ~IsNumber(after) THEN LegacyFail
             ELSE LegacyStep(q + 1, TimeAddFinal(TimeAdd(st, n), ReadMilliseconds(after)))
        ELSE IF st.tz_hour # None /\ st.tz_minute = None /\ IsMinute(n)
        THEN LegacyStep(q, [st EXCEPT !.tz_minute = n])
        ELSE IF TimeIsExpecting(st, n)
        THEN IF \/ IsEndOfInput(after) \/ after.type = "whitespace"
                \/ IsKeywordZ(after) \/ IsAsciiSign(after)
             THEN LegacyStep(q, TimeAddFinal(st, n))
             ELSE LegacyFail
        ELSE IF Len(st.day) >= 3 THEN LegacyFail
        ELSE LegacyStep(IF IsSymbol(after, "-") THEN q + 1 ELSE q, DayAdd(st, n))

\* the legacy parser on the word at token p
LegacyKeyword(tk, p, st, has_read_number) ==
    LET token == tk[p]
    IN  IF token.keyword = "AM_PM" /\ st.time # <<>>
        THEN LegacyStep(p + 1, [st EXCEPT !.hour_offset = token.value])
        ELSE IF token.keyword = "MONTH_NAME"
        THEN LegacyStep(IF IsSymbol(Peek(tk, p + 1), "-") THEN p + 2 ELSE p + 1,
                        [st EXCEPT !.named_month = token.value])
        ELSE IF token.keyword = "TIME_ZONE_NAME" /\ has_read_number
        THEN LegacyStep(p + 1, TzSet(st, token.value))
        ELSE IF has_read_number \/ IsNumber(Peek(tk, p + 1)) THEN LegacyFail
        ELSE LegacyStep(p + 1, st)

\* the legacy parser on a sign after UTC or after a time: a UTC offset
LegacyOffset(tk, p, st) ==
    LET sign   == IF tk[p].symbol = "+" THEN 1 ELSE -1
        number == IsNumber(Peek(tk, p + 1))
        n      == IF number THEN tk[p + 1].number ELSE 0
        length == IF number THEN tk[p + 1].length ELSE 0
        q      == IF number THEN p + 2 ELSE p + 1
    IN  IF IsSymbol(Peek(tk, q), ":")
        THEN LegacyStep(q, [st EXCEPT !.tz_sign = sign, !.tz_hour = n, !.tz_minute = None])
        ELSE IF length \in {1, 2}
        THEN LegacyStep(q, [st EXCEPT !.tz_sign = sign, !.tz_hour = n, !.tz_minute = 0])
        ELSE IF length \in {3, 4}
        THEN LegacyStep(q, [st EXCEPT !.tz_sign = sign, !.tz_hour = n \div 100,
                                      !.tz_minute = n % 100])
        ELSE LegacyFail

\* one pass of the loop of the legacy parser, on token p
LegacyToken(tk, p, st, has_read_number) ==
    IF IsNumber(tk[p]) THEN LegacyNumber(tk, p, st)
    ELSE IF tk[p].type = "keyword"
    THEN LegacyKeyword(tk, p, st, has_read_number)
    ELSE IF IsAsciiSign(tk[p]) /\ (TzIsUTC(st) \/ st.time # <<>>)
    THEN LegacyOffset(tk, p, st)
    ELSE IF (IsAsciiSign(tk[p]) \/ IsSymbol(tk[p], ")")) /\ has_read_number
    THEN LegacyFail
    ELSE LegacyStep(p + 1, st)

\* has_read_number after the pass on token p
HasReadNumber(tk, p, st, has_read_number) ==
    \/ has_read_number
    \/ IsNumber(tk[p])
    \/ IsAsciiSign(tk[p]) /\ (TzIsUTC(st) \/ st.time # <<>>)

\* the loop of the legacy parser: step is what its latest pass came to
RECURSIVE LegacyParse(_, _, _)
LegacyParse(tk, step, has_read_number) ==
    IF ~step.ok \/ step.pos > Len(tk) THEN step
    ELSE LegacyParse(tk, LegacyToken(tk, step.pos, step.st, has_read_number),
                     HasReadNumber(tk, step.pos, step.st, has_read_number))

\* DayComposer::Write: which component is the year, the month, the day
DayWrite(st) ==
    LET comp  == st.day \o SubSeq(<<1, 1, 1>>, 1, 3 - Len(st.day))
        ymd   == IF st.named_month = None
                 THEN IF st.is_iso_date \/ ~IsDay(comp[1])
                      THEN [year |-> comp[1], month |-> comp[2], day |-> comp[3]]
                      ELSE [year |-> comp[3], month |-> comp[1], day |-> comp[2]]
                 ELSE IF ~IsDay(comp[1])
                      THEN [year |-> comp[1], month |-> st.named_month, day |-> comp[2]]
                      ELSE [year |-> comp[2], month |-> st.named_month, day |-> comp[1]]
        year  == IF st.is_iso_date THEN ymd.year
                 ELSE IF 0 <= ymd.year /\ ymd.year <= 49 THEN ymd.year + 2000
                 ELSE IF 50 <= ymd.year /\ ymd.year <= 99 THEN ymd.year + 1900
                 ELSE ymd.year
    IN  IF st.day = <<>> THEN [ok |-> FALSE, year |-> 0, month |-> 0, day |-> 0]
        ELSE [ok |-> IsMonth(ymd.month) /\ IsDay(ymd.day),
              year |-> year, month |-> ymd.month, day |-> ymd.day]

\* TimeComposer::Write: the milliseconds since midnight
TimeWrite(st) ==
    LET comp == PadTime(st.time)
        hour == IF st.hour_offset = None THEN comp[1]
                ELSE (comp[1] % 12) + st.hour_offset
    IN  IF st.hour_offset # None /\ ~(0 <= comp[1] /\ comp[1] <= 12) THEN [ok |-> FALSE, ms |-> 0]
        ELSE IF /\ ~(IsHour(hour) /\ IsMinute(comp[2]) /\ IsSecond(comp[3])
                      /\ IsMillisecond(comp[4]))
                /\ ~(hour = 24 /\ comp[2] = 0 /\ comp[3] = 0 /\ comp[4] = 0)
        THEN [ok |-> FALSE, ms |-> 0]
        ELSE [ok |-> TRUE,
              ms |-> ((hour * 60 + comp[2]) * 60 + comp[3]) * 1000 + comp[4]]

\* a * b modulo m, for a < m <= 2^30
RECURSIVE MulMod(_, _, _)
MulMod(a, b, m) ==
    IF b = 0 THEN 0
    ELSE (((2 * MulMod(a, b \div 2, m)) % m) + ((b % 2) * a)) % m

TwoTo30 == 1073741824

\* a quarter of hour * 3600 + minute * 60 in unsigned 32-bit arithmetic
QuarterOffset(hour, minute) ==
    MulMod((MulMod(hour % TwoTo30, 60, TwoTo30) + minute) % TwoTo30, 15, TwoTo30)

\* the offset in seconds, refused when it is above 2^31 - 1
SignedOffset(sign, quarter) ==
    IF 2 * quarter >= TwoTo30 THEN [ok |-> FALSE, local |-> FALSE, offset |-> 0]
    ELSE [ok |-> TRUE, local |-> FALSE, offset |-> sign * 4 * quarter]

\* TimeZoneComposer::Write: the UTC offset in seconds; without a time zone the
\* time is local time
TimeZoneWrite(st) ==
    IF st.tz_sign = None THEN [ok |-> TRUE, local |-> TRUE, offset |-> 0]
    ELSE SignedOffset(st.tz_sign,
                      QuarterOffset(IF st.tz_hour = None THEN 0 ELSE st.tz_hour,
                                    IF st.tz_minute = None THEN 0 ELSE st.tz_minute))

\* the legacy parser takes over where the date-time format ended, unless the
\* string was a date-time string to its end or a broken one
ParseLegacy(tk, es5) ==
    IF es5.kind = "invalid" THEN LegacyFail
    ELSE IF es5.kind = "end" THEN LegacyStep(Len(tk) + 1, es5.st)
    ELSE LegacyParse(tk, LegacyStep(es5.pos, es5.st), es5.st.day # <<>>)

\* DateParser::Parse: the tokens of the string as composers
ParseTokens(tk) == ParseLegacy(tk, ParseES5DateTime(tk))

\* the time value of what the composers wrote
MakeDateTime(day, time, tz, z) ==
    IF ~day.ok \/ ~time.ok \/ ~tz.ok THEN InvalidDate
    ELSE IF day.year > MaxYear \/ day.year < 0 - MaxYear THEN InvalidDate
    ELSE IF tz.local
    THEN LocalDate(z, MakeDay(day.year, day.month - 1, day.day), time.ms)
    ELSE TimeClip(MakeDay(day.year, day.month - 1, day.day) - (tz.offset \div 86400),
                  time.ms - (tz.offset % 86400) * 1000)

WriteDate(r, z) ==
    IF ~r.ok THEN InvalidDate
    ELSE MakeDateTime(DayWrite(r.st), TimeWrite(r.st), TimeZoneWrite(r.st), z)

\* new Date(string), the fallback of parseDate
NewDateFromString(s, z) == WriteDate(ParseTokens(Tokenize(s, 1)), z)

-----------------------------------------------------------------------------
(* datePatterns and parseDate *)

PartNum(parts, k) == DigitsValue(parts[k], 0)

\* the four {regex, parser} entries of datePatterns, in order
DatePatternRegex(p) ==
    CASE p = 1 -> <<"d","d","d","d","-","d","d","-","d","d">>   \* yyyy-MM-dd
      [] p = 2 -> <<"d","d","/","d","d","/","d","d","d","d">>   \* MM/dd/yyyy
      [] p = 3 -> <<"d","d","-","d","d","-","d","d","d","d">>   \* dd-MM-yyyy
      [] p = 4 -> <<"d","d","/","d","d","/","d","d","d","d">>   \* dd/MM/yyyy

DatePatternParser(p, s, z) ==
    LET dash  == Split(s, "-")
        slash == Split(s, "/")
    IN  CASE p = 1 -> NewDate(PartNum(dash, 1), PartNum(dash, 2) - 1, PartNum(dash, 3), z)
          [] p = 2 -> NewDate(PartNum(slash, 3), PartNum(slash, 1) - 1, PartNum(slash, 2), z)
          [] p = 3 -> NewDate(PartNum(dash, 3), PartNum(dash, 2) - 1, PartNum(dash, 1), z)
          [] p = 4 -> NewDate(PartNum(slash, 3), PartNum(slash, 2) - 1, PartNum(slash, 1), z)

NumPatterns == 4

\* line 74: isNaN(d.getTime()) ? null : d
NullIfInvalid(d) == IF IsInvalidDate(d) THEN Null ELSE d

\* the for loop of parseDate from pattern p on: the first pattern whose regex
\* matches and whose parser gives a valid date decides; the fallback is the
\* Date constructor
RECURSIVE ParseFrom(_, _, _)
ParseFrom(p, s, z) ==
    IF p > NumPatterns
    THEN NullIfInvalid(NewDateFromString(s, z))
    ELSE IF TestShape(DatePatternRegex(p), s)
            /\ ~IsInvalidDate(DatePatternParser(p, s, z))
         THEN DatePatternParser(p, s, z)
         ELSE ParseFrom(p + 1, s, z)

\* the test of line 60, !dateStr || dateStr.toLowerCase() === "null": the
\* field makes parseDate read the clock.  toLowerCase gives "null" for the
\* four letters in either case and for no other string (no other character
\* of Unicode has n, u or l in its lower case)
IsNullLiteral(str) ==
    \/ str = <<>>
    \/ /\ Len(str) = 4
       /\ str[1] \in {"n", "N"} /\ str[2] \in {"u", "U"}
       /\ str[3] \in {"l", "L"} /\ str[4] \in {"l", "L"}

\* parseDate(dateStr), with t the Date that `new Date()` returns when the
\* call reads the clock and z the local time zone
parseDate(str, t, z) ==
    IF IsNullLiteral(str) THEN t ELSE ParseFrom(1, Trim(str), z)

\* parseCSV(csvText)
parseCSV(csvText) ==
    LET lines == SplitLines(csvText)
        kept  == SelectSeq(lines, LAMBDA line : Trim(line) # <<>>)
        cols(line) == LET c == Split(line, ",") IN [k \in 1..Len(c) |-> Trim(c[k])]
    IN  [k \in 1..Len(kept) |-> cols(kept[k])]

\* differenceInDays(date1, date2): the whole days in the distance of the two
\* time values
differenceInDays(date1, date2) ==
    LET lo == IF DateLess(date2, date1) THEN date2 ELSE date1
        hi == IF DateLess(date2, date1) THEN date1 ELSE date2
    IN  (hi.day - lo.day) + ((hi.ms - lo.ms) \div MsPerDay)

-----------------------------------------------------------------------------
(* The wall clock *)

\* what the n-th `new Date()` of a run returns, ts the readings of the run
Reading(ts, n) == ts[IF n < Len(ts) THEN n ELSE Len(ts)]

\* the readings left after n reads
RECURSIVE Advance(_, _)
Advance(ts, n) ==
    IF n = 0 \/ Len(ts) <= 1 THEN ts ELSE Advance(Tail(ts), n - 1)

\* the number of `new Date()` calls the two parseDate calls of a row make
RowReads(r) ==
    (IF IsNullLiteral(r[3]) THEN 1 ELSE 0) + (IF IsNullLiteral(r[4]) THEN 1 ELSE 0)

-----------------------------------------------------------------------------
(* processData: the validation loop *)

InvalidFormat == "Invalid data format in CSV."

\* One pass of `for (const row of data)`: a short row is skipped, a row with
\* a NaN id or a null date stops the run with an error, any other row is
\* pushed as a record.  DateTo reads the clock after DateFrom did.
CheckRecord(EmpID, ProjectID, DateFrom, DateTo) ==
    IF isNaN(EmpID) \/ isNaN(ProjectID) \/ DateFrom = Null \/ DateTo = Null
    THEN [kind |-> "error", message |-> InvalidFormat]
    ELSE [kind |-> "record",
          record |-> [EmpID |-> EmpID, ProjectID |-> ProjectID,
                      DateFrom |-> DateFrom, DateTo |-> DateTo]]

ValidateRow(r, ts, z) ==
    IF Len(r) < 4 THEN [kind |-> "skip"]
    ELSE CheckRecord(Number(r[1]), Number(r[2]),
                     parseDate(r[3], Reading(ts, 1), z),
                     parseDate(r[4], Reading(ts, IF IsNullLiteral(r[3]) THEN 2 ELSE 1), z))

\* faulty variant of ValidateStop: `break` in place of `return`, the rows
\* before the invalid one go on to the aggregation
ValidateBreak(data, k, acc, ts, z) == [ok |-> TRUE, records |-> acc]

\* an invalid row ends the loop (and processData) at once: `return`
ValidateStop(data, k, acc, ts, z) == [ok |-> FALSE, records |-> <<>>]

\* the whole loop from row k on, acc the records pushed so far, ts the
\* readings of the clock from here on
RECURSIVE ValidateFrom(_, _, _, _, _)

\* what the loop does with v, the outcome of the pass on row k
ValidateNext(data, k, acc, ts, z, v) ==
    CASE v.kind = "skip"   -> ValidateFrom(data, k + 1, acc, ts, z)
      [] v.kind = "error"  -> ValidateStop(data, k, acc, ts, z)
      [] v.kind = "record" ->
           ValidateFrom(data, k + 1, Append(acc, v.record),
                        Advance(ts, RowReads(data[k])), z)

ValidateFrom(data, k, acc, ts, z) ==
    IF k > Len(data) THEN [ok |-> TRUE, records |-> acc]
    ELSE ValidateNext(data, k, acc, ts, z, ValidateRow(data[k], ts, z))

-----------------------------------------------------------------------------
(* Map *)

MapHas(m, key) == \E k \in 1..Len(m) : m[k].key = key

MapIndex(m, key) == CHOOSE k \in 1..Len(m) : m[k].key = key

MapGet(m, key) == m[MapIndex(m, key)].value

\* Map.prototype.set: a new key is appended, a known key keeps its place
MapSet(m, key, value) ==
    IF MapHas(m, key)
    THEN [m EXCEPT ![MapIndex(m, key)] = [key |-> key, value |-> value]]
    ELSE Append(m, [key |-> key, value |-> value])

\* Array.from(map.values())
MapValues(m) == [k \in 1..Len(m) |-> m[k].value]

-----------------------------------------------------------------------------
(* processData: the aggregation loop *)

\* faulty variant of MathMin: the first employee id in input order
MathMinFirst(a, b) == a

\* Math.min, Math.max of two numbers
MathMin(a, b) == IF NumLess(b, a) THEN b ELSE a

MathMax(a, b) == IF NumLess(a, b) THEN b ELSE a

\* faulty variant of SameProjectOtherEmployee: the test of the employee ids
\* is dropped
SameProjectOnly(p1, p2) == NumEq(p1.ProjectID, p2.ProjectID)

\* p1.ProjectID === p2.ProjectID && p1.EmpID !== p2.EmpID
SameProjectOtherEmployee(p1, p2) ==
    NumEq(p1.ProjectID, p2.ProjectID) /\ ~NumEq(p1.EmpID, p2.EmpID)

\* const start, const end
OverlapStart(p1, p2) ==
    IF DateLess(p2.DateFrom, p1.DateFrom) THEN p1.DateFrom ELSE p2.DateFrom

OverlapEnd(p1, p2) ==
    IF DateLess(p1.DateTo, p2.DateTo) THEN p1.DateTo ELSE p2.DateTo

\* `${emp1}-${emp2}-${projectId}` and `${emp1}-${emp2}`
PairKey(emp1, emp2, projectId) ==
    NumToString(emp1) \o <<"-">> \o NumToString(emp2) \o <<"-">> \o NumToString(projectId)

TotalKey(emp1, emp2) == NumToString(emp1) \o <<"-">> \o NumToString(emp2)

\* lines 135-146: the per-project entry of the pair
UpdatePairMap(m, emp1, emp2, projectId, days) ==
    LET key == PairKey(emp1, emp2, projectId)
    IN  IF MapHas(m, key)
        THEN LET existing == MapGet(m, key)
             IN  MapSet(m, key,
                        [existing EXCEPT !.totalDaysWorked = existing.totalDaysWorked + days])
        ELSE MapSet(m, key, [emp1 |-> emp1, emp2 |-> emp2, projectId |-> projectId,
                             totalDaysWorked |-> days])

\* faulty variant of UpdatePairMapTotal: `=` in place of `+=`
UpdatePairMapTotalAssign(m, emp1, emp2, days) ==
    MapSet(m, TotalKey(emp1, emp2), [emp1 |-> emp1, emp2 |-> emp2, totalDaysWorked |-> days])

\* lines 149-159: the entry of the pair over all projects
UpdatePairMapTotal(m, emp1, emp2, days) ==
    LET keyTotal == TotalKey(emp1, emp2)
    IN  IF MapHas(m, keyTotal)
        THEN LET existing == MapGet(m, keyTotal)
             IN  MapSet(m, keyTotal,
                        [existing EXCEPT !.totalDaysWorked = existing.totalDaysWorked + days])
        ELSE MapSet(m, keyTotal, [emp1 |-> emp1, emp2 |-> emp2, totalDaysWorked |-> days])

\* the body of the inner loop for the records p1 = records[i], p2 = records[j]
\* on maps = [pairMap, pairMapTotal]
LoopBody(maps, p1, p2) ==
    IF SameProjectOtherEmployee(p1, p2)
    THEN LET start == OverlapStart(p1, p2)
             end   == OverlapEnd(p1, p2)
         IN  IF ~DateLess(end, start)
             THEN LET days      == differenceInDays(end, start) + 1
                      emp1      == MathMin(p1.EmpID, p2.EmpID)
                      emp2      == MathMax(p1.EmpID, p2.EmpID)
                      projectId == p1.ProjectID
                  IN  [pairMap      |-> UpdatePairMap(maps.pairMap, emp1, emp2, projectId, days),
                       pairMapTotal |-> UpdatePairMapTotal(maps.pairMapTotal, emp1, emp2, days)]
             ELSE maps
    ELSE maps

EmptyMaps == [pairMap |-> <<>>, pairMapTotal |-> <<>>]

\* the two nested for loops from (a, b) on, indices 0-based as in the source
RECURSIVE AggregateFrom(_, _, _, _)
AggregateFrom(recs, a, b, maps) ==
    IF a >= Len(recs) THEN maps
    ELSE IF b >= Len(recs) THEN AggregateFrom(recs, a + 1, a + 2, maps)
    ELSE AggregateFrom(recs, a, b + 1, LoopBody(maps, recs[a + 1], recs[b + 1]))

Aggregate(recs) == AggregateFrom(recs, 0, 1, EmptyMaps)

-----------------------------------------------------------------------------
(* processData: the selection of the pairs with the highest total *)

\* Math.max(...totals): -Infinity of no argument
HighestMaxScore(m) ==
    LET totals == MapValues(m)
    IN  IF totals = <<>> THEN [negInfinity |-> TRUE, value |-> 0]
        ELSE [negInfinity |-> FALSE,
              value |-> CHOOSE v \in {totals[k].totalDaysWorked : k \in 1..Len(totals)} :
                            \A k \in 1..Len(totals) : totals[k].totalDaysWorked <= v]

\* faulty variant of PairMapTotalResult: `find` in place of `filter`, a
\* single winner
PairMapTotalResultFind(m) ==
    LET highestMaxScore == HighestMaxScore(m)
        winners == SelectSeq(MapValues(m),
                             LAMBDA member : /\ ~highestMaxScore.negInfinity
                                             /\ member.totalDaysWorked = highestMaxScore.value)
    IN  SubSeq(winners, 1, 1)

PairMapTotalResult(m) ==
    LET highestMaxScore == HighestMaxScore(m)
    IN  SelectSeq(MapValues(m),
                  LAMBDA member : /\ ~highestMaxScore.negInfinity
                                  /\ member.totalDaysWorked = highestMaxScore.value)

Filtered(pm, pairMapTotalResult) ==
    SelectSeq(MapValues(pm),
              LAMBDA ppd : \E k \in 1..Len(pairMapTotalResult) :
                              /\ NumEq(pairMapTotalResult[k].emp1, ppd.emp1)
                              /\ NumEq(pairMapTotalResult[k].emp2, ppd.emp2))

\* processData(data), ts the readings of the clock during the run and z the
\* local time zone: what it
\* does to the component's state
SelectPairs(maps) == Filtered(maps.pairMap, PairMapTotalResult(maps.pairMapTotal))

\* lines 116-193 on the records of a valid batch
ProcessRecords(v) ==
    IF ~v.ok
    THEN [ok |-> FALSE, filtered |-> <<>>]
    ELSE [ok |-> TRUE, filtered |-> SelectPairs(Aggregate(v.records))]

processData(data, ts, z) == ProcessRecords(ValidateFrom(data, 1, <<>>, ts, z))

-----------------------------------------------------------------------------
(* The inputs of the model *)

MaxRecords == 4

MaxUploads == 2

MaxReadings == 3

\* clock readings: a midnight, an afternoon, and the afternoon a millisecond
\* later
NowValues ==
    {DateVal(MakeDay(2024, 0, 12), 0),
     DateVal(MakeDay(2024, 0, 20), (15 * 60 + 30) * 60 * 1000),
     DateVal(MakeDay(2024, 0, 20), (15 * 60 + 30) * 60 * 1000 + 1)}

\* the readings of a run: the clock does not go back
ClockRuns ==
    {ts \in [1..MaxReadings -> NowValues] :
        \A k \in 1..(MaxReadings - 1) : ~DateLess(ts[k + 1], ts[k])}

\* the contents of the files a user can select.  Files 1, 3 and 4 hold a row
\* that fails the validation: the first row of file 1, the last of file 3,
\* and in file 4 a row between valid rows whose DateFrom starts with U+0000
FileText(f) ==
    CASE f = 1 ->
        <<"1", ",", "a", "b", "c", ",", "2", "0", "2", "4", "-", "0", "1", "-",
          "0", "1", ",", "2", "0", "2", "4", "-", "0", "1", "-", "1", "0", "\n",
          "2", ",", "1", ",", "2", "0", "2", "4", "-", "0", "1", "-", "0", "1",
          ",", "2", "0", "2", "4", "-", "0", "1", "-", "1", "0", "\n">>
      [] f = 2 ->
        <<"1", ",", "2", ",", "2", "0", "2", "4", "-", "0", "3", "-", "3",
          "0", ",", "2", "0", "2", "4", "-", "0", "4", "-", "0", "1", "\r",
          "\n", "3", ",", "2", ",", "2", "0", "2", "4", "-", "0", "3", "-",
          "3", "1", ",", "2", "0", "2", "4", "-", "0", "4", "-", "0", "2",
          "\r", "\n", "\r", "\n">>
      [] f = 3 ->
        <<"1", ",", "1", ",", "2", "0", "2", "4", "-", "0", "1", "-", "0",
          "1", ",", "2", "0", "2", "4", "-", "0", "1", "-", "1", "0", "\n",
          "2", ",", "1", ",", "2", "0", "2", "4", "-", "0", "1", "-", "0",
          "5", ",", "2", "0", "2", "4", "-", "0", "1", "-", "1", "5", "\n",
          "a", "b", "c", ",", "1", ",", "2", "0", "2", "4", "-", "0", "1",
          "-", "0", "1", ",", "2", "0", "2", "4", "-", "0", "1", "-", "0",
          "2">>
      [] f = 4 ->
        <<"1", ",", "1", ",", "2", "0", "2", "4", "-", "0", "1", "-", "0", "1",
          ",", "2", "0", "2", "4", "-", "0", "1", "-", "0", "2", "\n", "2", ",",
          "1", "\n", "2", ",", "1", ",", "\\u0000", "5", " ", "J", "a", "n",
          " ", "2", "0", "2", "4", ",", "n", "u", "l", "l", "\n", "3", ",", "1",
          ",", "2", "0", "2", "4", "-", "0", "1", "-", "0", "1", ",", "2", "0",
          "2", "4", "-", "0", "1", "-", "1", "0">>
      [] f = 5 ->
        <<" ", "1", " ", ",", " ", "1", " ", ",", "2", "0", "2", "4", "-",
          "0", "1", "-", "0", "1", ",", "N", "U", "L", "L", "\n", "2", ",",
          "1", ",", "0", "1", "/", "0", "3", "/", "2", "0", "2", "4", ",",
          "n", "u", "l", "l">>
      [] f = 6 ->
        <<"1", ",", "1", ",", "n", "u", "l", "l", ",", "n", "u", "l", "l",
          "\n", "2", ",", "1", ",", "n", "u", "l", "l", ",", "n", "u", "l",
          "l", "\f", "\n", "\\u00A0", "\n">>

Files == 1..6

YearStrs == {<<"2", "0", "2", "3">>, <<"2", "0", "2", "4">>, <<"0", "0", "2", "4">>}

MonthStrs == {<<"0", "0">>, <<"0", "1">>, <<"0", "2">>, <<"1", "2">>, <<"1", "3">>}

DayStrs == {<<"0", "0">>, <<"0", "1">>, <<"2", "8">>, <<"2", "9">>, <<"3", "0">>, <<"3", "1">>, <<"3", "2">>}

\* more strings: the clock, the Date constructor with its time zones, the
\* days around a change of the local offset
OtherDateStrs ==
    {<<>>,
     <<"n", "u", "l", "l">>,
     <<"N", "U", "L", "L">>,
     <<"N", "u", "l", "l">>,
     <<"n", "u", "l", "l", " ">>,
     <<"a", "b", "c">>,
     <<" ", "2", "0", "2", "4", "-", "0", "1", "-", "0", "5">>,
     <<"2", "0", "2", "4", "-", "0", "1", "-", "0", "5", "\\u00A0">>,
     <<"2", "0", "2", "4", "-", "0", "1", "-", "0", "5", "T", "1", "5", ":", "0", "0">>,
     <<"2", "0", "2", "4", "-", "0", "2", "-", "3", "0", "T", "1", "5", ":", "0", "0">>,
     <<"2", "0", "2", "4", "-", "0", "1", "-", "0", "5", "T", "2", "4", ":", "0", "0">>,
     <<"2", "0", "2", "4", "-", "0", "1", "-", "0", "5", "T", "2", "5", ":", "0", "0">>,
     <<"2", "0", "2", "4", "-", "0", "1", "-", "0", "5", "T", "1", "5", ":", "0", "0",
       ":", "0", "0", ".", "5", "Z">>,
     <<"2", "0", "2", "4", "-", "0", "1", "-", "0", "5", "T", "0", "1", ":", "0", "0",
       "+", "0", "2", ":", "0", "0">>,
     <<"2", "0", "2", "4", "-", "0", "1", "-", "0", "5", " ", "1", "5", ":", "0", "0">>,
     <<"2", "0", "2", "4", "-", "1", "-", "5">>,
     <<"2", "0", "2", "4", "-", "0", "1", "-", "5">>,
     <<"2", "0", "2", "4", "/", "0", "1", "/", "0", "5">>,
     <<"2", "0", "2", "4", ".", "0", "1", ".", "0", "5">>,
     <<"1", "/", "3", "/", "2", "0", "2", "4">>,
     <<"1", "3", "/", "3", "/", "2", "0", "2", "4">>,
     <<"1">>,
     <<"2", "0", "2", "4">>,
     <<"J", "a", "n", " ", "5", " ", "2", "0", "2", "4">>,
     <<"5", " ", "J", "a", "n", "u", "a", "r", "y", " ", "2", "0", "2", "4", " ",
       "3", ":", "3", "0", " ", "P", "M">>,
     <<"J", "a", "n", " ", "5">>,
     <<"J", "a", "n", " ", "5", " ", "2", "0", "2", "4", " ", "1", "0", ":", "0", "0",
       " ", "G", "M", "T", "+", "0", "2", "0", "0">>,
     <<"2", "0", "2", "4", "-", "0", "1", "-", "0", "5", "x">>,
     <<"(", "a", ")", "1", "/", "2", "/", "9", "9">>,
     <<"2", "0", "2", "4", "-", "0", "1", "-", "0", "5", "T", "0", "1", ":",
       "0", "0", "-", "0", "2", ":", "0", "0">>,
     <<"J", "a", "n", " ", "5", " ", "2", "0", "2", "4", " ", "1", "0", ":",
       "0", "0", " ", "E", "S", "T">>,
     <<"\\u0001", "5", " ", "J", "a", "n", " ", "2", "0", "2", "4">>,
     <<"2", "0", "2", "4", "-", "0", "1", "-", "0", "5", " ", "1", "0", ":",
       "0", "0", " ", "+", "5", "9", "6", "5", "2", "3", ":", "0", "0">>,
     <<"2", "0", "2", "4", "-", "0", "1", "-", "0", "5", " ", "1", "0", ":",
       "0", "0", " ", "+", "5", "9", "6", "5", "2", "3", ":", "1", "5">>,
     <<"2", "0", "2", "4", "-", "0", "3", "-", "3", "1">>,
     <<"2", "0", "2", "4", "-", "0", "4", "-", "0", "1">>,
     <<"2", "0", "2", "4", "-", "0", "3", "-", "3", "1", "T", "0", "3", ":",
       "3", "0">>,
     <<"2", "0", "2", "4", "-", "1", "0", "-", "2", "7", "T", "0", "3", ":",
       "3", "0">>,
     <<"1", "9", "8", "5", "-", "0", "7", "-", "0", "1">>,
     <<"J", "a", "n", " ", "5", " ", "2", "0", "2", "4", "\\u0000", "a", "b",
       "c">>,
     <<"\\u0000", "5", " ", "J", "a", "n", " ", "2", "0", "2", "4">>,
     <<"5", "\\u2028", "J", "a", "n", " ", "2", "0", "2", "4">>,
     <<"5", " ", "J", "a", "n", "\\u2029", "2", "0", "2", "4">>,
     <<"J", "a", "n", " ", "5", " ", "2", "0", "2", "4", " ", "(", "a",
       "\\u0000", ")", " ", "9", "9", ":", "9", "9">>}

DateStrs ==
    {y \o <<"-">> \o m \o <<"-">> \o d : y \in YearStrs, m \in MonthStrs, d \in DayStrs}
    \cup {m \o <<"/">> \o d \o <<"/">> \o y : y \in YearStrs, m \in MonthStrs, d \in DayStrs}
    \cup {d \o <<"-">> \o m \o <<"-">> \o y : y \in YearStrs, m \in MonthStrs, d \in DayStrs}
    \cup OtherDateStrs

IdStrs ==
    {<<"1">>, <<"2">>, <<"1", "2">>, <<>>, <<"a", "b", "c">>, <<"1", ".", "5">>,
     <<"-", "3">>, <<"1", "\f">>, <<"0", "x", "1", "F">>}

RowDateStrs ==
    {<<"2", "0", "2", "4", "-", "0", "1", "-", "0", "5">>,
     <<"n", "u", "l", "l">>,
     <<"a", "b", "c">>,
     <<"2", "0", "2", "4", "-", "1", "3", "-", "0", "5">>,
     <<"\\u0001", "5", " ", "J", "a", "n", " ", "2", "0", "2", "4">>,
     <<"J", "a", "n", " ", "5", " ", "2", "0", "2", "4", "\\u0000", "a", "b",
       "c">>,
     <<"5", "\\u2028", "J", "a", "n", " ", "2", "0", "2", "4">>}

Rows ==
    {<<a, b, c, d>> : a \in IdStrs, b \in IdStrs, c \in RowDateStrs, d \in RowDateStrs}
    \cup {<<a, b, c>> : a \in IdStrs, b \in IdStrs, c \in RowDateStrs}
    \cup {<<a, b, c, c, a>> : a \in IdStrs, b \in IdStrs, c \in RowDateStrs}

\* the dates of the records of the aggregation loop: two midnights and an
\* afternoon (a date with a time of day is what parseDate returns for an
\* empty or "null" field, and for a date-time string)
LoopD0(z) == NewDate(2024, 2, 30, z)

LoopD1(z) == LocalDate(z, MakeDay(2024, 2, 31), 15 * 60 * 60 * 1000)

LoopD2(z) == NewDate(2024, 3, 1, z)

LoopRecords(z) ==
    {[EmpID |-> Num(e), ProjectID |-> Num(p), DateFrom |-> LoopD0(z), DateTo |-> LoopD2(z)] :
        e \in {1, 2, 3}, p \in {1, 2}}
    \cup {[EmpID |-> Num(1), ProjectID |-> Num(1), DateFrom |-> r[1], DateTo |-> r[2]] :
        r \in {<<LoopD1(z), LoopD2(z)>>, <<LoopD2(z), LoopD0(z)>>}}

RECURSIVE SeqsUpTo(_, _)
SeqsUpTo(S, n) ==
    IF n = 0 THEN {<<>>}
    ELSE LET shorter == SeqsUpTo(S, n - 1)
         IN  shorter \cup {Append(q, x) : q \in {q \in shorter : Len(q) = n - 1}, x \in S}

-----------------------------------------------------------------------------
(* The App component: its state and its handlers *)

ReadError == "Error reading file."

ContentError == "Failed to read file content."

NoError == "null"

\* what the component renders below the file input: the row count and the
\* table (lines 226-251)
TableShown == fileUploaded /\ Len(pairs) > 0

\* handleFileUpload on the state st = [pairs, error, fileUploaded]
UploadEffect(st) == [st EXCEPT !.fileUploaded = TRUE]

\* what the calls of processData do to the state: setError(null) and
\* setPairs(filtered), or setError(message) and setFileUploaded(false)
ProcessEffect(st, r) ==
    IF r.ok
    THEN [st EXCEPT !.error = NoError, !.pairs = r.filtered]
    ELSE [st EXCEPT !.error = InvalidFormat, !.fileUploaded = FALSE]

\* reader.onload with a string result: processData(parseCSV(text))
LoadEffect(st, f, ts, z) ==
    ProcessEffect(st, processData(parseCSV(FileText(f)), ts, z))

\* the number of `new Date()` calls of processData on the rows from row k on:
\* the calls of the rows of 4 tokens and more, up to the row that ends the run
RECURSIVE NewDateCalls(_, _, _, _)
NewDateCalls(data, k, ts, z) ==
    IF k > Len(data) THEN 0
    ELSE IF Len(data[k]) < 4 THEN NewDateCalls(data, k + 1, ts, z)
    ELSE IF ValidateRow(data[k], ts, z).kind = "error" THEN RowReads(data[k])
    ELSE RowReads(data[k]) + NewDateCalls(data, k + 1, ts, z)

\* the readings a run of n `new Date()` calls can take when the latest
\* reading before it was last: the clock does not go back, and a run that
\* does not read the clock leaves the readings as they are
Readings(n, last) ==
    IF n = 0 THEN {<<last>>}
    ELSE {SubSeq(ts, 1, IF n < MaxReadings THEN n ELSE MaxReadings) :
            ts \in {r \in ClockRuns : ~DateLess(r[1], last)}}

\* reader.onload with a result that is no string
NonStringEffect(st) == [st EXCEPT !.error = ContentError]

\* reader.onerror
ErrorEffect(st) == [st EXCEPT !.error = ReadError]

AppState == [pairs |-> pairs, error |-> error, fileUploaded |-> fileUploaded]

SetAppState(st) ==
    /\ pairs' = st.pairs
    /\ error' = st.error
    /\ fileUploaded' = st.fileUploaded

\* the read of reader k is over; ts the readings of the clock its callback
\* took
Done(k, result, ts) ==
    readers' = [readers EXCEPT ![k] = [@ EXCEPT !.readyState = "DONE",
                                                !.result = result, !.clock = ts]]

-----------------------------------------------------------------------------
(* Idle parts: each specification runs one part of the program and holds   *)
(* the variables of the others at rest                                     *)

Pending == [tag |-> "pending"]

PendingRow == [kind |-> "pending"]

DateIdle == dateStr = <<>> /\ parsed = Pending

RowIdle == row = <<>> /\ rec = PendingRow

LoopIdle ==
    /\ records = <<>> /\ i = 0 /\ j = 0 /\ pairMap = <<>> /\ pairMapTotal = <<>>
    /\ filtered = <<>> /\ pc = "idle"

AppInit == pairs = <<>> /\ error = NoError /\ fileUploaded = FALSE /\ readers = <<>>

-----------------------------------------------------------------------------
(* Specification SpecDate: parseDate on one string *)

InitDate ==
    /\ dateStr \in DateStrs /\ parsed = Pending
    /\ now \in {<<t>> : t \in NowValues}
    /\ zone \in Zones
    /\ RowIdle /\ LoopIdle /\ AppInit

ParseDateCall ==
    /\ parsed = Pending
    /\ parsed' = parseDate(dateStr, Reading(now, 1), zone)
    /\ UNCHANGED <<dateStr, now, zone, rowVars, loopVars, appVars>>

NextDate == ParseDateCall

SpecDate == InitDate /\ [][NextDate]_vars

-----------------------------------------------------------------------------
(* Specification SpecRow: one pass of the validation loop on one row *)

InitRow ==
    /\ row \in Rows /\ rec = PendingRow
    /\ now \in ClockRuns
    /\ zone \in Zones
    /\ DateIdle /\ LoopIdle /\ AppInit

ValidateRowStep ==
    /\ rec = PendingRow
    /\ rec' = ValidateRow(row, now, zone)
    /\ UNCHANGED <<row, now, zone, dateVars, loopVars, appVars>>

NextRow == ValidateRowStep

SpecRow == InitRow /\ [][NextRow]_vars

-----------------------------------------------------------------------------
(* Specification SpecLoop: the aggregation loop of processData, one        *)
(* iteration of the inner loop per step, then the selection                *)

InitLoop ==
    /\ zone \in Zones
    /\ records \in SeqsUpTo(LoopRecords(zone), MaxRecords)
    /\ i = 0 /\ j = 1
    /\ pairMap = <<>> /\ pairMapTotal = <<>> /\ filtered = <<>>
    /\ pc = IF Len(records) >= 2 THEN "loop" ELSE "select"
    /\ now = <<>>
    /\ DateIdle /\ RowIdle /\ AppInit

\* one iteration of the inner loop at (i, j), then the loop control up to
\* the next iteration or to the end of both loops
LoopStep ==
    /\ pc = "loop"
    /\ LET maps == LoopBody([pairMap |-> pairMap, pairMapTotal |-> pairMapTotal],
                            records[i + 1], records[j + 1])
       IN  /\ pairMap' = maps.pairMap
           /\ pairMapTotal' = maps.pairMapTotal
    /\ IF j + 1 < Len(records)
       THEN i' = i /\ j' = j + 1 /\ pc' = "loop"
       ELSE IF i + 2 < Len(records)
            THEN i' = i + 1 /\ j' = i + 2 /\ pc' = "loop"
            ELSE i' = Len(records) /\ j' = j + 1 /\ pc' = "select"
    /\ UNCHANGED <<records, filtered, now, zone, dateVars, rowVars, appVars>>

\* lines 168-193: the pairs with the highest total, handed to setPairs
Select ==
    /\ pc = "select"
    /\ filtered' = Filtered(pairMap, PairMapTotalResult(pairMapTotal))
    /\ pc' = "done"
    /\ UNCHANGED <<records, i, j, pairMap, pairMapTotal, now, zone, dateVars, rowVars,
                   appVars>>

NextLoop == LoopStep \/ Select

SpecLoop == InitLoop /\ [][NextLoop]_vars

-----------------------------------------------------------------------------
(* Specification SpecApp: the component, files selected and read; now is   *)
(* the readings the latest run of processData took                         *)

InitApp ==
    /\ AppInit
    /\ now \in {<<t>> : t \in NowValues}
    /\ zone \in Zones
    /\ DateIdle /\ RowIdle /\ LoopIdle

\* handleFileUpload with a file selected (without one it returns at once)
HandleFileUpload(f) ==
    /\ Len(readers) < MaxUploads
    /\ SetAppState(UploadEffect(AppState))
    /\ readers' = Append(readers, [file |-> f, readyState |-> "LOADING",
                                   result |-> "none", clock |-> <<>>])
    /\ UNCHANGED <<now, zone, dateVars, rowVars, loopVars>>

\* reader.onload, event.target.result a string; ts the readings of the clock
\* that processData takes
OnLoad(k) ==
    /\ readers[k].readyState = "LOADING"
    /\ \E ts \in Readings(NewDateCalls(parseCSV(FileText(readers[k].file)), 1, now, zone),
                          now[Len(now)]) :
          /\ SetAppState(LoadEffect(AppState, readers[k].file, ts, zone))
          /\ Done(k, "string", ts)
          /\ now' = ts
    /\ UNCHANGED <<zone, dateVars, rowVars, loopVars>>

\* reader.onload, event.target.result not a string
OnLoadNonString(k) ==
    /\ readers[k].readyState = "LOADING"
    /\ SetAppState(NonStringEffect(AppState))
    /\ Done(k, "nonstring", <<>>)
    /\ UNCHANGED <<now, zone, dateVars, rowVars, loopVars>>

\* reader.onerror
OnError(k) ==
    /\ readers[k].readyState = "LOADING"
    /\ SetAppState(ErrorEffect(AppState))
    /\ Done(k, "error", <<>>)
    /\ UNCHANGED <<now, zone, dateVars, rowVars, loopVars>>

NextApp ==
    \/ \E f \in Files : HandleFileUpload(f)
    \/ \E k \in 1..Len(readers) : OnLoad(k)
    \/ \E k \in 1..Len(readers) : OnError(k)
    \/ \E k \in 1..Len(readers) : OnLoadNonString(k)

SpecApp == InitApp /\ [][NextApp]_vars

Spec == SpecApp

-----------------------------------------------------------------------------
(* Properties of the aggregation loop (SpecLoop) *)

SeqToSet(q) == {q[k] : k \in 1..Len(q)}

RECURSIVE SumDays(_)
SumDays(S) ==
    IF S = {} THEN 0
    ELSE LET e == CHOOSE x \in S : TRUE
         IN  e.totalDaysWorked + SumDays(S \ {e})

SamePair(a, b) == NumEq(a.emp1, b.emp1) /\ NumEq(a.emp2, b.emp2)

\* the calendar day a date falls on
CalendarDay(d) ==
    CHOOSE c \in (d.day - 1)..(d.day + 1) :
        /\ ~DateLess(d, LocalDate(zone, c, 0))
        /\ DateLess(d, LocalDate(zone, c + 1, 0))

\* the inclusive number of calendar days two date ranges share
SharedDays(p1, p2) ==
    LET a1 == CalendarDay(p1.DateFrom)
        b1 == CalendarDay(p2.DateFrom)
        a2 == CalendarDay(p1.DateTo)
        b2 == CalendarDay(p2.DateTo)
        start == IF a1 > b1 THEN a1 ELSE b1
        end   == IF a2 < b2 THEN a2 ELSE b2
    IN  IF start <= end THEN end - start + 1 ELSE 0

\* the total a map of totals holds for the pair of the records p1, p2
TotalOfPair(m, p1, p2) ==
    SumDays({e \in SeqToSet(MapValues(m)) :
                /\ {e.emp1, e.emp2} = {p1.EmpID, p2.EmpID}})

\* C1: an iteration of the loop over two records of the same project and of
\* different employees adds to the total of their pair the number of calendar
\* days their date ranges share, both boundary days counted, and nothing when
\* the ranges share no day.
C1_OverlapDays ==
    [][(pc = "loop" /\ SameProjectOtherEmployee(records[i + 1], records[j + 1]))
        => TotalOfPair(pairMapTotal', records[i + 1], records[j + 1])
             - TotalOfPair(pairMapTotal, records[i + 1], records[j + 1])
           = SharedDays(records[i + 1], records[j + 1])]_vars

\* C2: the argument of setPairs is exactly the entries of pairMap whose pair
\* has the maximum total of pairMapTotal: every pair tied for the maximum is
\* in it with all its projects, and no pair below the maximum is.
IsMaxTotal(t) == \A u \in SeqToSet(MapValues(pairMapTotal)) : u.totalDaysWorked <= t.totalDaysWorked

WinningEntries ==
    {e \in SeqToSet(MapValues(pairMap)) :
        \E t \in SeqToSet(MapValues(pairMapTotal)) : SamePair(t, e) /\ IsMaxTotal(t)}

C2_TopPairs ==
    pc = "done" => /\ SeqToSet(filtered) = WinningEntries
                   /\ Len(filtered) = Cardinality(WinningEntries)

C2_Witness ==
    /\ pc = "done"
    /\ \E a, b \in SeqToSet(filtered) : ~SamePair(a, b)
    /\ \E e \in SeqToSet(MapValues(pairMap)) : e \notin SeqToSet(filtered)

\* C3: exchanging any two records of the input, or rotating the input, leaves
\* the keys and the totalDaysWorked of every key of pairMap and of
\* pairMapTotal as they are.  (Every permutation is a product of exchanges,
\* and the model draws the input in every order.)
Swap(recs, a, b) == [recs EXCEPT ![a] = recs[b], ![b] = recs[a]]

Rotate(recs) == IF recs = <<>> THEN recs ELSE Append(Tail(recs), Head(recs))

SameMaps(recs) ==
    /\ SeqToSet(Aggregate(recs).pairMap) = SeqToSet(pairMap)
    /\ SeqToSet(Aggregate(recs).pairMapTotal) = SeqToSet(pairMapTotal)

C3_OrderIndependent ==
    pc = "done" =>
        /\ \A a, b \in 1..Len(records) : a < b => SameMaps(Swap(records, a, b))
        /\ SameMaps(Rotate(records))

C3_Witness ==
    /\ pc = "done"
    /\ Len(pairMap) >= 2
    /\ \E a, b \in 1..Len(records) :
          /\ a < b
          /\ NumLess(records[b].EmpID, records[a].EmpID)
          /\ SameProjectOtherEmployee(records[a], records[b])
          /\ TotalOfPair(pairMapTotal, records[a], records[b]) > 0
    /\ \E e \in SeqToSet(MapValues(pairMap)) : e.totalDaysWorked > 3

\* C4: at every step of the loop and in its output, emp1 < emp2 in every
\* entry of pairMap, of pairMapTotal and of filtered.
C4_Canonical ==
    \A e \in SeqToSet(MapValues(pairMap)) \cup SeqToSet(MapValues(pairMapTotal))
             \cup SeqToSet(filtered) : NumLess(e.emp1, e.emp2)

C4_Witness ==
    /\ pc = "done"
    /\ pairMap # <<>>
    /\ \E a, b \in 1..Len(records) :
          /\ a < b
          /\ NumEq(records[a].EmpID, records[b].EmpID)
          /\ NumEq(records[a].ProjectID, records[b].ProjectID)
          /\ SharedDays(records[a], records[b]) > 0

\* C9: after every iteration, the total of every entry of pairMapTotal is the
\* sum of the totals of the entries of pairMap of the same pair, a pair is in
\* pairMapTotal exactly when it is in pairMap, and no map has two entries of
\* the same (emp1, emp2, projectId) or (emp1, emp2).
C9_TotalsAreSums ==
    /\ \A t \in SeqToSet(MapValues(pairMapTotal)) :
          /\ t.totalDaysWorked
               = SumDays({e \in SeqToSet(MapValues(pairMap)) : SamePair(e, t)})
          /\ \E e \in SeqToSet(MapValues(pairMap)) : SamePair(e, t)
    /\ \A e \in SeqToSet(MapValues(pairMap)) :
          \E t \in SeqToSet(MapValues(pairMapTotal)) : SamePair(e, t)
    /\ \A a, b \in 1..Len(pairMap) :
          (SamePair(pairMap[a].value, pairMap[b].value)
             /\ NumEq(pairMap[a].value.projectId, pairMap[b].value.projectId)) => a = b
    /\ \A a, b \in 1..Len(pairMapTotal) :
          SamePair(pairMapTotal[a].value, pairMapTotal[b].value) => a = b

C9_Witness ==
    \E t \in SeqToSet(MapValues(pairMapTotal)) :
        /\ Cardinality({e \in SeqToSet(MapValues(pairMap)) : SamePair(e, t)}) = 2
        /\ t.totalDaysWorked = 6

-----------------------------------------------------------------------------
(* Properties of the validation of a row (SpecRow) *)

\* the token is the decimal literal of an integer
ParsesAsInteger(tok) ==
    /\ Trim(tok) # <<>>
    /\ IsFinite(Number(tok))
    /\ Number(tok).den = 1

\* C7: a row of at least 4 tokens whose token 0 or token 1 does not parse as
\* an integer (it is empty, non-numeric or fractional) ends the validation
\* with the 'Invalid data format' error, and no record is made of it.
C7_NonIntegerIdRejected ==
    (rec # PendingRow /\ Len(row) >= 4
        /\ (~ParsesAsInteger(row[1]) \/ ~ParsesAsInteger(row[2])))
    => (rec.kind = "error" /\ rec.message = InvalidFormat)

-----------------------------------------------------------------------------
(* Properties of parseDate (SpecDate) *)

MatchedPattern(s) ==
    IF \E p \in 1..NumPatterns : TestShape(DatePatternRegex(p), s)
    THEN CHOOSE p \in 1..NumPatterns :
            /\ TestShape(DatePatternRegex(p), s)
            /\ \A q \in 1..(p - 1) : ~TestShape(DatePatternRegex(q), s)
    ELSE 0

\* the year, month (1-12) and day the matched pattern reads in the token
TokenYMD(s) ==
    LET p == MatchedPattern(s)
        a == DigitsValue(SubSeq(s, 1, IF p = 1 THEN 4 ELSE 2), 0)
        b == DigitsValue(SubSeq(s, IF p = 1 THEN 6 ELSE 4, IF p = 1 THEN 7 ELSE 5), 0)
        c == DigitsValue(SubSeq(s, IF p = 1 THEN 9 ELSE 7, 10), 0)
    IN  CASE p = 1 -> [y |-> a, m |-> b, d |-> c]
          [] p = 2 -> [y |-> c, m |-> a, d |-> b]
          [] p = 3 -> [y |-> c, m |-> b, d |-> a]
          [] p = 4 -> [y |-> c, m |-> b, d |-> a]

\* C8: a date that parseDate returns for a token that matches a pattern is
\* the calendar date whose year, month and day are the token's components
\* (its local midnight): a token with a month or a day out of range (month
\* 13) never yields a date built from those components.
C8_PatternDatesAreReal ==
    (parsed # Pending /\ ~IsNullLiteral(dateStr) /\ MatchedPattern(Trim(dateStr)) # 0
        /\ parsed.tag = "date")
    => LET c == TokenYMD(Trim(dateStr))
       IN  /\ c.m \in 1..12
           /\ c.d \in 1..DaysInMonth(c.y, c.m - 1)
           /\ parsed = LocalDate(zone, MakeDay(c.y, c.m - 1, c.d), 0)

-----------------------------------------------------------------------------
(* Properties of the component (SpecApp) *)

\* the files whose batch holds a row that fails the validation
HasInvalidRow(data, z) ==
    \E n \in 1..Len(data) : \E ts \in ClockRuns :
        ValidateRow(data[n], ts, z).kind = "error"

InvalidFiles == [z \in Zones |-> {f \in Files : HasInvalidRow(parseCSV(FileText(f)), z)}]

\* reader k ends its read in this step, with the given result
Completes(k, result) ==
    /\ k \in 1..Len(readers)
    /\ readers[k].readyState = "LOADING"
    /\ Len(readers') = Len(readers)
    /\ readers'[k].readyState = "DONE"
    /\ readers'[k].result = result

\* C5: when a batch holds a row that fails the validation, processData sets
\* the error, does not call setPairs (pairs keeps the value it had) and no
\* result table is displayed.
C5_FailFast ==
    [][\A k \in 1..Len(readers) :
          (Completes(k, "string") /\ readers[k].file \in InvalidFiles[zone])
          => /\ error' = InvalidFormat
             /\ pairs' = pairs
             /\ ~TableShown']_vars

C5_Witness ==
    /\ \E k \in 1..Len(readers) :
          readers[k].result = "string" /\ readers[k].file \in InvalidFiles[zone]
    /\ error = InvalidFormat
    /\ pairs # <<>>
    /\ ~fileUploaded

\* C6: after any failure of an upload (a validation failure, a read error, a
\* content that is no string) the component shows no result table and no row
\* count.
C6_FailureClearsTable ==
    [][\A k \in 1..Len(readers) :
          (\/ Completes(k, "error")
           \/ Completes(k, "nonstring")
           \/ (Completes(k, "string") /\ readers[k].file \in InvalidFiles[zone]))
          => ~TableShown']_vars

\* what a completed read does to the component
Complete(st, r) ==
    CASE r.result = "string"    -> LoadEffect(st, r.file, r.clock, zone)
      [] r.result = "nonstring" -> NonStringEffect(st)
      [] r.result = "error"     -> ErrorEffect(st)

InitialAppState == [pairs |-> <<>>, error |-> NoError, fileUploaded |-> FALSE]

\* the state after the two files, each read to its end before the next one is
\* selected
InOrderOutcome ==
    Complete(UploadEffect(Complete(UploadEffect(InitialAppState), readers[1])), readers[2])

\* C10: when two files were selected and both reads are over, the state
\* displayed is the outcome of the file selected last, in whichever order the
\* callbacks ran.
C10_LastSelectedWins ==
    (Len(readers) = 2 /\ \A k \in 1..2 : readers[k].readyState = "DONE")
    => AppState = InOrderOutcome

=============================================================================
